---- MODULE Spec2Model ----
(***************************************************************************)
(* The Google-Doc-to-HTML converter of the HR email helpers                *)
(* (convertBodyToHtml and the functions it calls), as a state machine.     *)
(*                                                                         *)
(* A string is a sequence of one-character strings.  An HTML result is a   *)
(* sequence of pieces: a piece is either one character that came from the  *)
(* document (text, link URL) or one literal of the converter's templates   *)
(* ("<strong>", "</ul>", ...), so tag counting and nesting are read off    *)
(* the pieces.                                                             *)
(*                                                                         *)
(* The helpers around the converter (executeWithRetry, the offboarding     *)
(* workflow, createEmailFromTemplate) are state machines over run (the     *)
(* locals and position of the function) and world (the service calls it    *)
(* has made).                                                              *)
(***************************************************************************)
EXTENDS Integers, Sequences, FiniteSets, TLC

VARIABLES
    documentApp,  \* the platform globals the converter reads (DocumentApp)
    fn,           \* the function whose call is being observed ("none": no call)
    input,        \* the arguments of that call
    result,       \* the value the call returned
    frames,       \* the invocations of convertBodyToHtml: locals and position
    run,          \* the helper or workflow being executed: locals and position
    world         \* what the services have been asked to do (API, Drive, Gmail, UI)

vars == <<documentApp, fn, input, result, frames, run, world>>

\* ------------------------------------------------------------------ bounds
MaxLen == 3       \* longest string handed to escapeHtml / convertTextToHtml
MaxRun == 3       \* longest run of sibling list items in one container
MaxNesting == 2   \* deepest list nesting level
MaxBody == 3      \* most top-level elements of a body
MaxCallBody == 2  \* most elements of a body when two invocations are compared
MaxCalls == 2     \* most invocations one caller makes in a row
MaxTail == 2      \* most list items after the first run of a long body
MaxChildren == 2  \* most inline children of a paragraph called directly
MaxRows == 2      \* most rows of a table called directly
MaxRetries == 3   \* largest maxRetries handed to executeWithRetry
MaxPlaceholders == 2  \* most entries of placeholderValues
MaxDataRows == 2  \* most employee rows of the Personnel sheet

\* ----------------------------------------------------------------- helpers
Min(a, b) == IF a < b THEN a ELSE b

RECURSIVE Flatten(_)
Flatten(ss) == IF ss = <<>> THEN <<>> ELSE Head(ss) \o Flatten(Tail(ss))

\* how many pieces of s are in the set S
CountIn(s, S) == Cardinality({i \in DOMAIN s : s[i] \in S})

StringsUpTo(S, n) == UNION {[1..k -> S] : k \in 0..n}

\* a pattern that matches any character
replaceAllAnyCharacter(s, c, r) == Flatten([k \in 1..Len(s) |-> r])

\* String.prototype.replace(/c/g, r): every occurrence of the character c
RECURSIVE replaceAll(_, _, _)
replaceAll(s, c, r) ==
    IF s = <<>> THEN <<>>
    ELSE (IF Head(s) = c THEN r ELSE <<Head(s)>>) \o replaceAll(Tail(s), c, r)

\* String.prototype.substring(start, end) for 0 <= start < end
substring(s, start, end) == SubSeq(s, start + 1, Min(end, Len(s)))

\* String.prototype.trim(): leading and trailing white space removed
RECURSIVE trimStart(_)
trimStart(s) == IF s # <<>> /\ Head(s) = " " THEN trimStart(Tail(s)) ELSE s

RECURSIVE trimEnd(_)
trimEnd(s) ==
    IF s # <<>> /\ s[Len(s)] = " " THEN trimEnd(SubSeq(s, 1, Len(s) - 1)) ELSE s

trim(s) == trimEnd(trimStart(s))

\* Array.prototype.join(sep) of a list of piece sequences
RECURSIVE join(_, _)
join(parts, sep) ==
    IF parts = <<>> THEN <<>>
    ELSE IF Len(parts) = 1 THEN Head(parts)
    ELSE Head(parts) \o <<sep>> \o join(Tail(parts), sep)

\* ------------------------------------------------------------- escapeHtml
\* The five replacements, in the order and with the replacement strings of the
\* source file.  Only strings are handed to it here (typeof unsafe = 'string').
escapeHtml(unsafe) ==
    LET s1 == replaceAll(unsafe, "&", <<"&">>)
        s2 == replaceAll(s1, "<", <<"<">>)
        s3 == replaceAll(s2, ">", <<">">>)
        s4 == replaceAll(s3, "\"", <<"&", "q", "u", "o", "t">>)
        s5 == replaceAll(s4, "'", <<"'">>)
    IN  s5

\* ------------------------------------------------------ text run formatting
\* getAttributes(offset): the attribute map of a run.  null is "" for a
\* string-valued attribute, <<>> for the link URL and 0 for the font size.
NoStyle ==
    [LINK_URL |-> <<>>, UNDERLINE |-> FALSE, STRIKETHROUGH |-> FALSE,
     ITALIC |-> FALSE, BOLD |-> FALSE, FOREGROUND_COLOR |-> "",
     BACKGROUND_COLOR |-> "", FONT_SIZE |-> 0, FONT_FAMILY |-> "",
     VERTICAL_OFFSET |-> ""]

Urls == {<<>>, <<"u">>, <<"u", "\"">>}

Styles ==
    [LINK_URL : Urls, UNDERLINE : BOOLEAN, STRIKETHROUGH : BOOLEAN,
     ITALIC : BOOLEAN, BOLD : BOOLEAN,
     FOREGROUND_COLOR : {"", "#000000", "#ff0000"},
     BACKGROUND_COLOR : {"", "#ffffff", "#ffff00"},
     FONT_SIZE : {0, 12},
     FONT_FAMILY : {"", "Arial", "Georgia"},
     VERTICAL_OFFSET : {"", "SUPERSCRIPT", "SUBSCRIPT"}]

\* lines 243-257: the inline tags, each wrapping the result of the one before
applyStylingTagsLinkLast(style, html) ==
    LET h1 == IF style.UNDERLINE THEN <<"<u>">> \o html \o <<"</u>">> ELSE html
        h2 == IF style.STRIKETHROUGH THEN <<"<s>">> \o h1 \o <<"</s>">> ELSE h1
        h3 == IF style.BOLD THEN <<"<strong>">> \o h2 \o <<"</strong>">> ELSE h2
        h4 == IF style.ITALIC THEN <<"<em>">> \o h3 \o <<"</em>">> ELSE h3
        h5 == IF style.LINK_URL # <<>>
              THEN <<"<a href=\"">> \o style.LINK_URL \o <<"\">">> \o h4 \o <<"</a>">>
              ELSE h4
    IN  h5

applyStylingTagsBoldBeforeItalic(style, html) ==
    LET h1 == IF style.LINK_URL # <<>>
              THEN <<"<a href=\"">> \o style.LINK_URL \o <<"\">">> \o html \o <<"</a>">>
              ELSE html
        h2 == IF style.UNDERLINE THEN <<"<u>">> \o h1 \o <<"</u>">> ELSE h1
        h3 == IF style.STRIKETHROUGH THEN <<"<s>">> \o h2 \o <<"</s>">> ELSE h2
        h4 == IF style.BOLD THEN <<"<strong>">> \o h3 \o <<"</strong>">> ELSE h3
        h5 == IF style.ITALIC THEN <<"<em>">> \o h4 \o <<"</em>">> ELSE h4
    IN  h5

applyStylingTags(style, html) ==
    LET h1 == IF style.LINK_URL # <<>>
              THEN <<"<a href=\"">> \o style.LINK_URL \o <<"\">">> \o html \o <<"</a>">>
              ELSE html
        h2 == IF style.UNDERLINE THEN <<"<u>">> \o h1 \o <<"</u>">> ELSE h1
        h3 == IF style.STRIKETHROUGH THEN <<"<s>">> \o h2 \o <<"</s>">> ELSE h2
        h4 == IF style.ITALIC THEN <<"<em>">> \o h3 \o <<"</em>">> ELSE h3
        h5 == IF style.BOLD THEN <<"<strong>">> \o h4 \o <<"</strong>">> ELSE h4
    IN  h5

spanStylesBlackIncluded(style) ==
    (IF style.FOREGROUND_COLOR # ""
     THEN << <<"color: ", style.FOREGROUND_COLOR>> >> ELSE <<>>)
    \o (IF style.BACKGROUND_COLOR # "" /\ style.BACKGROUND_COLOR # "#ffffff"
        THEN << <<"background-color: ", style.BACKGROUND_COLOR>> >> ELSE <<>>)
    \o (IF style.FONT_SIZE # 0
        THEN << <<"font-size: ", ToString(style.FONT_SIZE), "pt">> >> ELSE <<>>)
    \o (IF style.FONT_FAMILY # "" /\ style.FONT_FAMILY # "Arial"
        THEN << <<"font-family: \"", style.FONT_FAMILY, "\"">> >> ELSE <<>>)

\* lines 261-273: the declarations of the style span, in push order
spanStyles(style) ==
    (IF style.FOREGROUND_COLOR # "" /\ style.FOREGROUND_COLOR # "#000000"
     THEN << <<"color: ", style.FOREGROUND_COLOR>> >> ELSE <<>>)
    \o (IF style.BACKGROUND_COLOR # "" /\ style.BACKGROUND_COLOR # "#ffffff"
        THEN << <<"background-color: ", style.BACKGROUND_COLOR>> >> ELSE <<>>)
    \o (IF style.FONT_SIZE # 0
        THEN << <<"font-size: ", ToString(style.FONT_SIZE), "pt">> >> ELSE <<>>)
    \o (IF style.FONT_FAMILY # "" /\ style.FONT_FAMILY # "Arial"
        THEN << <<"font-family: \"", style.FONT_FAMILY, "\"">> >> ELSE <<>>)

\* lines 275-286: <sup>/<sub>, only when the platform has the enumeration
applyVerticalOffset(style, html) ==
    IF documentApp.VerticalTextAlignment /\ style.VERTICAL_OFFSET # ""
    THEN IF style.VERTICAL_OFFSET = "SUPERSCRIPT" THEN <<"<sup>">> \o html \o <<"</sup>">>
         ELSE IF style.VERTICAL_OFFSET = "SUBSCRIPT" THEN <<"<sub>">> \o html \o <<"</sub>">>
         ELSE html
    ELSE html

\* lines 289-291
wrapSpan(style, html) ==
    IF Len(spanStyles(style)) > 0
    THEN <<"<span style=\"">> \o join(spanStyles(style), "; ") \o <<"\">">>
         \o html \o <<"</span>">>
    ELSE html

\* A Text element: its text, getTextAttributeIndices() and, per offset,
\* getAttributes(offset) (attrs[offset + 1]).
getAttributes(textElement, offset) == textElement.attrs[offset + 1]

\* lines 235-237: the raw text of the segment that is rendered
segmentText(textElement, start, end) ==
    IF start >= end THEN <<>> ELSE substring(textElement.text, start, end)

processTextSegmentSpanInside(textElement, start, end) ==
    IF start >= end THEN <<>>
    ELSE LET style == getAttributes(textElement, start)
             html == escapeHtml(segmentText(textElement, start, end))
         IN  applyVerticalOffset(style, wrapSpan(style, applyStylingTags(style, html)))

processTextSegment(textElement, start, end) ==
    IF start >= end THEN <<>>
    ELSE LET style == getAttributes(textElement, start)
             html == escapeHtml(segmentText(textElement, start, end))
         IN  wrapSpan(style, applyVerticalOffset(style, applyStylingTags(style, html)))

\* lines 213-222: the [start, end) pairs the loop hands to processTextSegment,
\* the trailing one included
RECURSIVE segmentRangesFrom(_, _, _, _)
segmentRangesFrom(attributes, i, lastIndex, length) ==
    IF i > Len(attributes) THEN << <<lastIndex, length>> >>
    ELSE << <<lastIndex, attributes[i]>> >>
         \o segmentRangesFrom(attributes, i + 1, attributes[i], length)

segmentRangesNoTrailing(textElement) ==
    LET all == segmentRangesFrom(textElement.indices, 1, 0, Len(textElement.text))
    IN  SubSeq(all, 1, Len(all) - 1)

segmentRanges(textElement) ==
    segmentRangesFrom(textElement.indices, 1, 0, Len(textElement.text))

convertTextToHtml(textElement) ==
    IF textElement.text = <<>> THEN <<>>
    ELSE LET ranges == segmentRanges(textElement)
         IN  Flatten([k \in 1..Len(ranges) |->
                        processTextSegment(textElement, ranges[k][1], ranges[k][2])])

\* ------------------------------------------------------- document elements
\* An inline child of a paragraph: a Text element or another inline kind.
TextChild(text, indices, attrs) ==
    [type |-> "TEXT", text |-> text, indices |-> indices, attrs |-> attrs]

PlainText(text) ==
    TextChild(text, IF text = <<>> THEN <<>> ELSE <<0>>, [k \in 1..Len(text) |-> NoStyle])

InlineImage == [type |-> "INLINE_IMAGE", text |-> <<>>, indices |-> <<>>, attrs |-> <<>>]

\* an inline child of a kind convertParagraphToHtml has no branch for
HorizontalRule ==
    [type |-> "HORIZONTAL_RULE", text |-> <<>>, indices |-> <<>>, attrs |-> <<>>]

\* A block element.  Fields a kind does not have hold their null value.
Element(type, heading, children, nesting, glyph, rows) ==
    [type |-> type, heading |-> heading, alignment |-> "null", lineSpacing |-> 0,
     indentStart |-> 0, indentEnd |-> 0, indentFirstLine |-> 0,
     children |-> children, nesting |-> nesting, glyph |-> glyph, rows |-> rows]

Paragraph(heading, children) == Element("PARAGRAPH", heading, children, 0, "null", <<>>)

ListItem(text, nesting, glyph) ==
    Element("LIST_ITEM", "NORMAL", IF text = <<>> THEN <<>> ELSE <<PlainText(text)>>,
            nesting, glyph, <<>>)

Table(rows) == Element("TABLE", "null", <<>>, 0, "null", rows)

TableOfContents == Element("TABLE_OF_CONTENTS", "null", <<>>, 0, "null", <<>>)

\* Paragraph.getText(): the text of the element's text children
getText(element) ==
    Flatten([k \in 1..Len(element.children) |-> element.children[k].text])

\* -------------------------------------------------- paragraph (lines 107-199)
getGlyphStyle(glyphType) ==
    CASE glyphType = "BULLET" -> "disc"
      [] glyphType = "HOLLOW_BULLET" -> "circle"
      [] glyphType = "SQUARE_BULLET" -> "square"
      [] glyphType = "NUMBER" -> "decimal"
      [] glyphType = "LATIN_LOWER" -> "lower-latin"
      [] glyphType = "LATIN_UPPER" -> "upper-latin"
      [] glyphType = "ROMAN_LOWER" -> "lower-roman"
      [] glyphType = "ROMAN_UPPER" -> "upper-roman"
      [] OTHER -> "disc"

\* "null" when the heading is no HEADING1..HEADING6
getHeadingTag(paragraph) ==
    CASE paragraph.heading = "HEADING1" -> "h1"
      [] paragraph.heading = "HEADING2" -> "h2"
      [] paragraph.heading = "HEADING3" -> "h3"
      [] paragraph.heading = "HEADING4" -> "h4"
      [] paragraph.heading = "HEADING5" -> "h5"
      [] paragraph.heading = "HEADING6" -> "h6"
      [] OTHER -> "null"

getParagraphStyle(paragraph) ==
    LET styles ==
            << <<"margin: 0.5em 0">>, <<"padding: 0">> >>
            \o (CASE paragraph.alignment = "CENTER" -> << <<"text-align: center">> >>
                  [] paragraph.alignment = "RIGHT" -> << <<"text-align: right">> >>
                  [] paragraph.alignment = "JUSTIFY" -> << <<"text-align: justify">> >>
                  [] OTHER -> <<>>)
            \o (IF paragraph.heading # "NORMAL" THEN << <<"font-weight: bold">> >> ELSE <<>>)
            \o (IF paragraph.lineSpacing # 0
                THEN << <<"line-height: ", ToString(paragraph.lineSpacing)>> >> ELSE <<>>)
            \o (IF paragraph.indentStart # 0
                THEN << <<"padding-left: ", ToString(paragraph.indentStart), "pt">> >>
                ELSE <<>>)
            \o (IF paragraph.indentEnd # 0
                THEN << <<"padding-right: ", ToString(paragraph.indentEnd), "pt">> >>
                ELSE <<>>)
            \o (IF paragraph.indentFirstLine # 0
                THEN << <<"text-indent: ", ToString(paragraph.indentFirstLine), "pt">> >>
                ELSE <<>>)
    IN  join(styles, "; ")

\* one inline child (lines 189-195); other kinds add nothing
convertChildToHtml(child) ==
    IF child.type = "TEXT" THEN convertTextToHtml(child)
    ELSE IF child.type = "INLINE_IMAGE" THEN <<"[Image]">>
    ELSE <<>>

convertParagraphToHtmlNoPlaceholder(paragraph) ==
    Flatten([k \in 1..Len(paragraph.children) |->
               convertChildToHtml(paragraph.children[k])])

convertParagraphToHtml(paragraph) ==
    IF getText(paragraph) = <<>> THEN <<"U+00A0">>  \* the no-break space character
    ELSE Flatten([k \in 1..Len(paragraph.children) |->
                    convertChildToHtml(paragraph.children[k])])

\* ------------------------------------------------ list items (lines 56-100)
\* 'ul' for the three bullet glyphs, 'ol' for anything else (null included)
listTagOf(type) ==
    IF type = "BULLET" \/ type = "HOLLOW_BULLET" \/ type = "SQUARE_BULLET"
    THEN "ul" ELSE "ol"

\* getPreviousSibling()/getNextSibling() of siblings[k] is a list item
isListItemAt(siblings, j) ==
    j \in 1..Len(siblings) /\ siblings[j].type = "LIST_ITEM"

openListTag(listTag, nesting, type) ==
    <<"<" \o listTag, " style=\"margin-left: ", ToString(nesting * 20),
      "px; list-style-type: ", getGlyphStyle(type), ";\">">>

closeListTag(listTag) == <<"</" \o listTag \o ">">>

\* lines 62-75: what is emitted before the <li>
listOpening(siblings, k) ==
    LET nesting == siblings[k].nesting
        type == siblings[k].glyph
        listTag == listTagOf(type)
        isPrevListItem == isListItemAt(siblings, k - 1)
        prevNesting == IF isPrevListItem THEN siblings[k - 1].nesting ELSE -1
        prevType == IF isPrevListItem THEN siblings[k - 1].glyph ELSE "null"
        prevListTag == listTagOf(prevType)
    IN  IF ~isPrevListItem \/ prevNesting < nesting
           \/ (prevNesting = nesting /\ listTag # prevListTag)
        THEN (IF isPrevListItem /\ prevNesting = nesting /\ listTag # prevListTag
              THEN closeListTag(prevListTag) ELSE <<>>)
             \o openListTag(listTag, nesting, type)
        ELSE <<>>

listClosingOneLevel(siblings, k) ==
    LET nesting == siblings[k].nesting
        listTag == listTagOf(siblings[k].glyph)
        isNextListItem == isListItemAt(siblings, k + 1)
        nextNesting == IF isNextListItem THEN siblings[k + 1].nesting ELSE -1
        nextType == IF isNextListItem THEN siblings[k + 1].glyph ELSE "null"
        nextListTag == listTagOf(nextType)
    IN  IF ~isNextListItem \/ nextNesting < nesting
           \/ (nextNesting = nesting /\ listTag # nextListTag)
        THEN closeListTag(listTag) ELSE <<>>

\* lines 80-96: what is emitted after the </li>
listClosing(siblings, k) ==
    LET nesting == siblings[k].nesting
        listTag == listTagOf(siblings[k].glyph)
        isNextListItem == isListItemAt(siblings, k + 1)
        nextNesting == IF isNextListItem THEN siblings[k + 1].nesting ELSE -1
        nextType == IF isNextListItem THEN siblings[k + 1].glyph ELSE "null"
        nextListTag == listTagOf(nextType)
    IN  (IF ~isNextListItem \/ nextNesting < nesting
            \/ (nextNesting = nesting /\ listTag # nextListTag)
         THEN closeListTag(listTag) ELSE <<>>)
        \o (IF isNextListItem /\ nextNesting < nesting - 1
            THEN Flatten([j \in 1..(nesting - 1 - nextNesting) |-> closeListTag(listTag)])
            ELSE <<>>)

\* processListItem(listItem) for the item siblings[k] of its parent's children
processListItem(siblings, k) ==
    listOpening(siblings, k)
    \o <<"<li style=\"margin-bottom: 0.5em;\">">>
    \o convertParagraphToHtml(siblings[k])
    \o <<"</li>">>
    \o listClosing(siblings, k)

\* ---------------------------------------------------- tables (lines 329-364)
RECURSIVE convertTableToHtml(_)
RECURSIVE cellChildToHtml(_, _)

\* lines 341-356: the content of a cell, child by child
cellContent(children) ==
    Flatten([k \in 1..Len(children) |-> cellChildToHtml(children, k)])

cellChildToHtml(children, k) ==
    LET element == children[k]
    IN  CASE element.type = "PARAGRAPH" ->
               <<"<div style=\"">> \o getParagraphStyle(element) \o <<"\">">>
               \o convertParagraphToHtml(element) \o <<"</div>">>
          [] element.type = "LIST_ITEM" -> processListItem(children, k)
          [] element.type = "TABLE" -> convertTableToHtml(element)
          [] OTHER -> getText(element)

convertRowToHtmlHeaderAtOne(row, i) ==
    LET cellTag == IF i = 1 THEN "th" ELSE "td"
    IN  <<"<tr>">>
        \o Flatten([j \in 1..Len(row) |->
                      <<"<" \o cellTag \o " style=\"\">">> \o cellContent(row[j])
                      \o <<"</" \o cellTag \o ">">>])
        \o <<"</tr>">>

convertRowToHtml(row, i) ==
    LET cellTag == IF i = 0 THEN "th" ELSE "td"
    IN  <<"<tr>">>
        \o Flatten([j \in 1..Len(row) |->
                      <<"<" \o cellTag \o " style=\"\">">> \o cellContent(row[j])
                      \o <<"</" \o cellTag \o ">">>])
        \o <<"</tr>">>

convertTableToHtml(tableElement) ==
    <<"<table border=\"1\" style=\"border-collapse: collapse; width: 100%;\">">>
    \o Flatten([r \in 1..Len(tableElement.rows) |->
                  convertRowToHtml(tableElement.rows[r], r - 1)])
    \o <<"</table>">>

\* --------------------------------------- convertBodyToHtml (lines 10-54)
\* One invocation: its locals (body, i, html, lastProcessedText) and where it
\* is: "idle" (not called), "loop" (at the loop test), "done" (returned html).
\* calls counts the invocations the caller has made with this frame.
IdleFrame ==
    [pc |-> "idle", body |-> <<>>, i |-> 0, html |-> <<>>, lastProcessedText |-> {},
     calls |-> 0]

\* lines 11-14: the locals at entry; f is the frame being (re)used
enterKeepingRecentText(f, body) ==
    [pc |-> "loop", body |-> body, i |-> 0, html |-> <<>>,
     lastProcessedText |-> f.lastProcessedText, calls |-> f.calls + 1]

enter(f, body) ==
    [pc |-> "loop", body |-> body, i |-> 0, html |-> <<>>, lastProcessedText |-> {},
     calls |-> f.calls + 1]

\* lines 18-27
paragraphCase(f) ==
    LET element == f.body[f.i + 1]
        headingTag == getHeadingTag(element)
        out == IF headingTag # "null"
               THEN <<"\n<div class=\"section\" style=\"margin-left: 0 !important;\">\n            <"
                      \o headingTag \o " style=\"">>
                    \o getParagraphStyle(element) \o <<"\">">>
                    \o convertParagraphToHtml(element)
                    \o <<"</" \o headingTag \o ">\n          </div>\n">>
               ELSE <<"<p style=\"">> \o getParagraphStyle(element) \o <<"\">">>
                    \o convertParagraphToHtml(element) \o <<"</p>">>
    IN  [f EXCEPT !.html = f.html \o out, !.i = f.i + 1]

\* line 39: the size above which the set is cleared
RecentTextLimit == 100

listItemCaseClearsAtLimit(f) ==
    LET itemText == trim(getText(f.body[f.i + 1]))
        added == f.lastProcessedText \cup {itemText}
    IN  IF itemText \notin f.lastProcessedText
        THEN [f EXCEPT !.html = f.html \o processListItem(f.body, f.i + 1),
                       !.lastProcessedText =
                           IF Cardinality(added) >= RecentTextLimit THEN {} ELSE added,
                       !.i = f.i + 1]
        ELSE [f EXCEPT !.i = f.i + 1]

\* lines 29-43
listItemCase(f) ==
    LET itemText == trim(getText(f.body[f.i + 1]))
        added == f.lastProcessedText \cup {itemText}
    IN  IF itemText \notin f.lastProcessedText
        THEN [f EXCEPT !.html = f.html \o processListItem(f.body, f.i + 1),
                       !.lastProcessedText =
                           IF Cardinality(added) > RecentTextLimit THEN {} ELSE added,
                       !.i = f.i + 1]
        ELSE [f EXCEPT !.i = f.i + 1]

\* lines 45-47
tableCase(f) ==
    [f EXCEPT !.html = f.html \o convertTableToHtml(f.body[f.i + 1]), !.i = f.i + 1]

\* lines 49-50: the default branch only logs
defaultCaseReturns(f) == [f EXCEPT !.pc = "done"]

defaultCase(f) == [f EXCEPT !.i = f.i + 1]

AtElement(c, types) ==
    /\ frames[c].pc = "loop"
    /\ frames[c].i < Len(frames[c].body)
    /\ frames[c].body[frames[c].i + 1].type \in types

SupportedTypes == {"PARAGRAPH", "LIST_ITEM", "TABLE"}

\* convertBodyToHtml(body) is called
Call(c, bodies) ==
    /\ frames[c].pc = "idle"
    /\ \E body \in bodies : frames' = [frames EXCEPT ![c] = enter(frames[c], body)]
    /\ UNCHANGED <<documentApp, fn, input, result, run, world>>

\* the caller that got the html calls again (one email after another)
CallAgain(c, bodies) ==
    /\ frames[c].pc = "done"
    /\ frames[c].calls < MaxCalls
    /\ \E body \in bodies : frames' = [frames EXCEPT ![c] = enter(frames[c], body)]
    /\ UNCHANGED <<documentApp, fn, input, result, run, world>>

StepParagraph(c) ==
    /\ AtElement(c, {"PARAGRAPH"})
    /\ frames' = [frames EXCEPT ![c] = paragraphCase(frames[c])]
    /\ UNCHANGED <<documentApp, fn, input, result, run, world>>

StepListItem(c) ==
    /\ AtElement(c, {"LIST_ITEM"})
    /\ frames' = [frames EXCEPT ![c] = listItemCase(frames[c])]
    /\ UNCHANGED <<documentApp, fn, input, result, run, world>>

StepTable(c) ==
    /\ AtElement(c, {"TABLE"})
    /\ frames' = [frames EXCEPT ![c] = tableCase(frames[c])]
    /\ UNCHANGED <<documentApp, fn, input, result, run, world>>

StepDefault(c) ==
    /\ frames[c].pc = "loop"
    /\ frames[c].i < Len(frames[c].body)
    /\ frames[c].body[frames[c].i + 1].type \notin SupportedTypes
    /\ frames' = [frames EXCEPT ![c] = defaultCase(frames[c])]
    /\ UNCHANGED <<documentApp, fn, input, result, run, world>>

\* line 53: the loop test fails, html is returned
ReturnHtml(c) ==
    /\ frames[c].pc = "loop"
    /\ frames[c].i >= Len(frames[c].body)
    /\ frames' = [frames EXCEPT ![c].pc = "done"]
    /\ UNCHANGED <<documentApp, fn, input, result, run, world>>

\* the caller has used the html; the invocation is gone
Discard(c) ==
    /\ frames[c].pc = "done"
    /\ frames' = [frames EXCEPT ![c] = IdleFrame]
    /\ UNCHANGED <<documentApp, fn, input, result, run, world>>

\* ------------------------------------------------------------ the documents
ItemTexts == {<<"a">>, <<"b">>, <<"a", " ">>}
Glyphs == {"BULLET", "NUMBER"}

BodyListItems == {ListItem(t, n, g) : t \in ItemTexts, n \in 0..1, g \in Glyphs}

BodyParagraphs ==
    {Paragraph(h, <<PlainText(<<"a">>)>>) : h \in {"NORMAL", "HEADING1"}}

BodyTables == {Table(<< << <<Paragraph("NORMAL", <<PlainText(<<"a">>)>>)>> >> >>)}

BodyElements == BodyListItems \cup BodyParagraphs \cup BodyTables \cup {TableOfContents}

Bodies == StringsUpTo(BodyElements, MaxBody)

Platforms == [VerticalTextAlignment : BOOLEAN]

NoInput ==
    [unsafe |-> <<>>, textElement |-> PlainText(<<>>), start |-> 0, end |-> 0,
     children |-> <<>>, element |-> TableOfContents]

\* ------------------------------------- one invocation of convertBodyToHtml
\* no helper or workflow is running and no service has been called
NoRun == [pc |-> "idle"]
NoWorld == [calls |-> <<>>]

Init ==
    /\ documentApp \in Platforms
    /\ fn = "none"
    /\ input = NoInput
    /\ result = <<>>
    /\ frames = [c \in {1, 2} |-> IdleFrame]
    /\ run = NoRun
    /\ world = NoWorld

Next ==
    \/ Call(1, Bodies)
    \/ StepParagraph(1)
    \/ StepListItem(1)
    \/ StepTable(1)
    \/ StepDefault(1)
    \/ ReturnHtml(1)
    \/ Discard(1)

Spec == Init /\ [][Next]_vars

\* ---------------------------- two callers, each converting body after body
CallBodies ==
    StringsUpTo({ListItem(<<"a">>, 0, "BULLET"), ListItem(<<"b">>, 0, "BULLET")},
                MaxCallBody)

NextCalls ==
    \E c \in {1, 2} :
        \/ Call(c, CallBodies)
        \/ CallAgain(c, CallBodies)
        \/ StepListItem(c)
        \/ ReturnHtml(c)

SpecCalls == Init /\ [][NextCalls]_vars

\* ------------------------------------------- the functions, called directly
EscapeChars == {"a", "&", "<", ">", "\"", "'"}

\* strictly increasing offsets: what getTextAttributeIndices() returns
RECURSIVE sortedSeq(_)
sortedSeq(S) ==
    IF S = {} THEN <<>>
    ELSE LET m == CHOOSE x \in S : \A y \in S : x <= y
         IN  <<m>> \o sortedSeq(S \ {m})

StyleSamples == {NoStyle, [NoStyle EXCEPT !.BOLD = TRUE]}

\* Text elements whose formatting changes only at the reported offsets
formattingAtIndices(e) ==
    \A o \in 1..(Len(e.text) - 1) :
        e.attrs[o + 1] # e.attrs[o] => \E k \in 1..Len(e.indices) : e.indices[k] = o

TextElements ==
    UNION {{e \in {TextChild(t, sortedSeq(I), a) :
                      I \in SUBSET (0..(Len(t) - 1)), a \in [1..Len(t) -> StyleSamples]} :
               formattingAtIndices(e)} :
           t \in StringsUpTo({"a", "b"}, MaxLen)}

SegmentTexts == {<<"x">>, <<"x", "<">>}

ListRuns ==
    StringsUpTo({ListItem(<<"a">>, n, g) : n \in 0..MaxNesting, g \in Glyphs}, MaxRun)
    \ {<<>>}

CallEscapeHtml ==
    /\ fn = "none"
    /\ \E unsafe \in StringsUpTo(EscapeChars, MaxLen) :
          /\ input' = [NoInput EXCEPT !.unsafe = unsafe]
          /\ result' = escapeHtml(unsafe)
    /\ fn' = "escapeHtml"
    /\ UNCHANGED <<documentApp, frames, run, world>>

CallConvertTextToHtml ==
    /\ fn = "none"
    /\ \E textElement \in TextElements :
          /\ input' = [NoInput EXCEPT !.textElement = textElement]
          /\ result' = convertTextToHtml(textElement)
    /\ fn' = "convertTextToHtml"
    /\ UNCHANGED <<documentApp, frames, run, world>>

\* a run of one formatting, and any [start, end) within its text
CallProcessTextSegment ==
    /\ fn = "none"
    /\ \E text \in SegmentTexts, style \in Styles :
          \E start \in 0..(Len(text) - 1), end \in 0..Len(text) :
              LET textElement == TextChild(text, <<0>>, [k \in 1..Len(text) |-> style])
              IN  /\ input' = [NoInput EXCEPT !.textElement = textElement,
                                              !.start = start, !.end = end]
                  /\ result' = processTextSegment(textElement, start, end)
    /\ fn' = "processTextSegment"
    /\ UNCHANGED <<documentApp, frames, run, world>>

\* a table cell's children are rendered (convertTableToHtml, lines 341-356)
CallCellContent ==
    /\ fn = "none"
    /\ \E children \in ListRuns :
          /\ input' = [NoInput EXCEPT !.children = children]
          /\ result' = cellContent(children)
    /\ fn' = "cellContent"
    /\ UNCHANGED <<documentApp, frames, run, world>>

\* paragraphs of text, images and children of another inline kind
ParagraphsCalled ==
    {Paragraph("NORMAL", children) :
        children \in StringsUpTo({PlainText(<<"a">>), InlineImage, HorizontalRule},
                                 MaxChildren)}

CallConvertParagraphToHtml ==
    /\ fn = "none"
    /\ \E paragraph \in ParagraphsCalled :
          /\ input' = [NoInput EXCEPT !.element = paragraph]
          /\ result' = convertParagraphToHtml(paragraph)
    /\ fn' = "convertParagraphToHtml"
    /\ UNCHANGED <<documentApp, frames, run, world>>

\* tables of one or two cells a row; a cell is empty, holds a paragraph or
\* holds a table of two rows
CellParagraph == Paragraph("NORMAL", <<PlainText(<<"a">>)>>)
NestedTable == Table(<< << <<CellParagraph>> >>, << <<CellParagraph>> >> >>)
CellsCalled == {<<>>, <<CellParagraph>>, <<NestedTable>>}
RowsCalled == [1..1 -> CellsCalled] \cup [1..2 -> CellsCalled]
TablesCalled == {Table(rows) : rows \in StringsUpTo(RowsCalled, MaxRows) \ {<<>>}}

CallConvertTableToHtml ==
    /\ fn = "none"
    /\ \E tableElement \in TablesCalled :
          /\ input' = [NoInput EXCEPT !.element = tableElement]
          /\ result' = convertTableToHtml(tableElement)
    /\ fn' = "convertTableToHtml"
    /\ UNCHANGED <<documentApp, frames, run, world>>

\* every value getGlyphType() can give, null included
GlyphTypes ==
    {"BULLET", "HOLLOW_BULLET", "SQUARE_BULLET", "NUMBER", "LATIN_UPPER",
     "LATIN_LOWER", "ROMAN_UPPER", "ROMAN_LOWER", "null"}

\* a list item between siblings that are not list items
CallProcessListItem ==
    /\ fn = "none"
    /\ \E type \in GlyphTypes, nesting \in 0..MaxNesting :
          LET listItem == ListItem(<<"a">>, nesting, type)
          IN  /\ input' = [NoInput EXCEPT !.element = listItem]
              /\ result' = processListItem(<<listItem>>, 1)
    /\ fn' = "processListItem"
    /\ UNCHANGED <<documentApp, frames, run, world>>

\* paragraphs with every heading kind (null: no heading value), alignment,
\* line spacing and indentation set or not
StyledParagraphs ==
    {[Paragraph(h, <<PlainText(<<"a">>)>>) EXCEPT
         !.alignment = a, !.lineSpacing = ls, !.indentStart = indent[1],
         !.indentEnd = indent[2], !.indentFirstLine = indent[3]] :
        h \in {"NORMAL", "HEADING1", "HEADING6", "TITLE", "SUBTITLE", "null"},
        a \in {"null", "LEFT", "CENTER", "RIGHT", "JUSTIFY"},
        ls \in {0, 2},
        indent \in [1..3 -> {0, 36}]}

CallGetParagraphStyle ==
    /\ fn = "none"
    /\ \E paragraph \in StyledParagraphs :
          /\ input' = [NoInput EXCEPT !.element = paragraph]
          /\ result' = getParagraphStyle(paragraph)
    /\ fn' = "getParagraphStyle"
    /\ UNCHANGED <<documentApp, frames, run, world>>

Return ==
    /\ fn # "none"
    /\ fn' = "none"
    /\ input' = NoInput
    /\ result' = <<>>
    /\ UNCHANGED <<documentApp, frames, run, world>>

NextFn ==
    \/ CallEscapeHtml
    \/ CallConvertTextToHtml
    \/ CallProcessTextSegment
    \/ CallCellContent
    \/ CallConvertParagraphToHtml
    \/ CallConvertTableToHtml
    \/ CallProcessListItem
    \/ CallGetParagraphStyle
    \/ Return

SpecFn == Init /\ [][NextFn]_vars

\* ================================================================== claims
IsInfix(a, s) ==
    \E i \in 0..(Len(s) - Len(a)) : SubSeq(s, i + 1, i + Len(a)) = a

\* the index in s of the n-th piece that is in S (0 when there is none)
NthIndex(s, S, n) ==
    LET hits == {i \in DOMAIN s : s[i] \in S}
        upTo(i) == Cardinality({j \in hits : j <= i})
    IN  IF Cardinality(hits) < n THEN 0
        ELSE CHOOSE i \in hits : upTo(i) = n

Entities ==
    {<<"&", "a", "m", "p", ";">>, <<"&", "l", "t", ";">>, <<"&", "g", "t", ";">>,
     <<"&", "q", "u", "o", "t", ";">>, <<"&", "#", "0", "3", "9", ";">>}

EntityAt(s, i) == \E e \in Entities : SubSeq(s, i, i + Len(e) - 1) = e

\* C1: the output of escapeHtml holds no literal '<', no literal '>' and no '&'
\* that does not start one of the escaper's entities.
C1_EscapedOutputIsSafe ==
    fn = "escapeHtml" =>
        \A i \in DOMAIN result :
            /\ result[i] \notin {"<", ">"}
            /\ result[i] = "&" => EntityAt(result, i)

\* the raw texts of the segments convertTextToHtml renders, in order
RenderedSegments(textElement) ==
    LET ranges == segmentRanges(textElement)
    IN  [k \in 1..Len(ranges) |-> segmentText(textElement, ranges[k][1], ranges[k][2])]

\* how many rendered segments hold the character at offset p
TimesRendered(textElement, p) ==
    LET ranges == segmentRanges(textElement)
    IN  Cardinality({k \in 1..Len(ranges) :
                        /\ ranges[k][1] < ranges[k][2]
                        /\ ranges[k][1] <= p
                        /\ p < Min(ranges[k][2], Len(textElement.text))})

\* C2: the segments convertTextToHtml renders, concatenated before escaping,
\* are the text, and every offset of the text is in exactly one of them.
C2_SegmentsCoverText ==
    fn = "convertTextToHtml" =>
        /\ Flatten(RenderedSegments(input.textElement)) = input.textElement.text
        /\ \A p \in 0..(Len(input.textElement.text) - 1) :
              TimesRendered(input.textElement, p) = 1

C2_Witness ==
    /\ fn = "convertTextToHtml"
    /\ Len(input.textElement.text) >= 3
    /\ Len(input.textElement.indices) >= 2
    /\ input.textElement.indices[1] > 0
    /\ input.textElement.attrs[1] # input.textElement.attrs[Len(input.textElement.text)]
    /\ result # <<>>

ListOpenPieces == {"<ul", "<ol"}
ListClosePieces == {"</ul>", "</ol>"}
ItemOpenPieces == {"<li style=\"margin-bottom: 0.5em;\">"}

IsFlatBulletBody(body) ==
    /\ Len(body) >= 1
    /\ \A k \in 1..Len(body) :
          /\ body[k].type = "LIST_ITEM"
          /\ body[k].nesting = 0
          /\ body[k].glyph \in {"BULLET", "HOLLOW_BULLET", "SQUARE_BULLET"}

\* C3: a body of n >= 1 bullet items at level 0 is converted to exactly one
\* <ul ...>, n <li> and one </ul>.
C3_FlatBulletList ==
    (frames[1].pc = "done" /\ IsFlatBulletBody(frames[1].body)) =>
        /\ CountIn(frames[1].html, {"<ul"}) = 1
        /\ CountIn(frames[1].html, ItemOpenPieces) = Len(frames[1].body)
        /\ CountIn(frames[1].html, {"</ul>"}) = 1

\* C4: after the last item of a run of sibling list items has been rendered,
\* as many list containers have been closed as were opened.
C4_ListTagsBalanced ==
    fn = "cellContent" =>
        CountIn(result, ListClosePieces) = CountIn(result, ListOpenPieces)

\* C5: between the </li> of a level-0 bullet item and the <li> of the level-0
\* ordinal item after it there is one </ul> and then the opening <ol ...>.
C5_TypeChangeAtSameLevel ==
    fn = "cellContent" =>
        \A k \in 1..(Len(input.children) - 1) :
            (/\ input.children[k].nesting = 0
             /\ input.children[k + 1].nesting = 0
             /\ input.children[k].glyph = "BULLET"
             /\ input.children[k + 1].glyph = "NUMBER")
            => SubSeq(result, NthIndex(result, {"</li>"}, k) + 1,
                      NthIndex(result, ItemOpenPieces, k + 1) - 1)
               = <<"</ul>">> \o openListTag("ol", 0, "NUMBER")

\* the run and the escaped text of an observed processTextSegment call
SegStyle == input.textElement.attrs[input.start + 1]
SegEscaped ==
    escapeHtml(SubSeq(input.textElement.text, input.start + 1, input.end))
SegRendered == fn = "processTextSegment" /\ input.start < input.end

Anchor(url) == <<"<a href=\"">> \o url \o <<"\">">>

BoldItalicLink(style) ==
    /\ style.BOLD
    /\ style.ITALIC
    /\ style.LINK_URL # <<>>
    /\ ~style.UNDERLINE
    /\ ~style.STRIKETHROUGH

InlineTagPieces ==
    {"<a href=\"", "</a>", "<u>", "</u>", "<s>", "</s>", "<em>", "</em>",
     "<strong>", "</strong>"}

If(cond, pieces) == IF cond THEN pieces ELSE <<>>

\* the tags of the set attributes around the escaped text: link innermost,
\* then underline, strikethrough, italic, and bold outermost
ExpectedInline(style, escaped) ==
    If(style.BOLD, <<"<strong>">>) \o If(style.ITALIC, <<"<em>">>)
    \o If(style.STRIKETHROUGH, <<"<s>">>) \o If(style.UNDERLINE, <<"<u>">>)
    \o If(style.LINK_URL # <<>>, Anchor(style.LINK_URL))
    \o escaped
    \o If(style.LINK_URL # <<>>, <<"</a>">>) \o If(style.UNDERLINE, <<"</u>">>)
    \o If(style.STRIKETHROUGH, <<"</s>">>) \o If(style.ITALIC, <<"</em>">>)
    \o If(style.BOLD, <<"</strong>">>)

HasSpanStyle(style) ==
    \/ style.FOREGROUND_COLOR \notin {"", "#000000"}
    \/ style.BACKGROUND_COLOR \notin {"", "#ffffff"}
    \/ style.FONT_SIZE # 0
    \/ style.FONT_FAMILY \notin {"", "Arial"}

HasVerticalOffset(style) == style.VERTICAL_OFFSET \in {"SUPERSCRIPT", "SUBSCRIPT"}

OffsetTag(style) == IF style.VERTICAL_OFFSET = "SUPERSCRIPT" THEN "sup" ELSE "sub"

\* C8 as stated: with a vertical offset and a span-level style, <sup>/<sub>
\* is the outermost wrapper and encloses the <span>.
C8_OffsetOutermost ==
    (SegRendered /\ HasVerticalOffset(SegStyle) /\ HasSpanStyle(SegStyle)) =>
        /\ result[1] = "<" \o OffsetTag(SegStyle) \o ">"
        /\ result[Len(result)] = "</" \o OffsetTag(SegStyle) \o ">"
        /\ result[2] = "<span style=\""

\* C8 amended: with a vertical offset and a span-level style, the <span> is
\* the outermost wrapper; the <sup>/<sub>, which is emitted when the platform
\* has the vertical-alignment enumeration, is directly inside it.
C8_SpanOutermost ==
    (SegRendered /\ HasVerticalOffset(SegStyle) /\ HasSpanStyle(SegStyle)) =>
        /\ result[1] = "<span style=\""
        /\ result[Len(result)] = "</span>"
        /\ documentApp.VerticalTextAlignment =>
              /\ result[NthIndex(result, {"\">"}, 1) + 1]
                    = "<" \o OffsetTag(SegStyle) \o ">"
              /\ result[Len(result) - 1] = "</" \o OffsetTag(SegStyle) \o ">"

C8_Witness ==
    /\ SegRendered
    /\ documentApp.VerticalTextAlignment
    /\ SegStyle.VERTICAL_OFFSET = "SUPERSCRIPT"
    /\ SegStyle.BOLD
    /\ result = <<"<span style=\"", "color: ", "#ff0000", "\">", "<sup>", "<strong>",
                  "x", "</strong>", "</sup>", "</span>">>

\* the list item body[k] has the trimmed text of a list item before it
SeenBefore(body, k) ==
    \E j \in 1..(k - 1) :
        /\ body[j].type = "LIST_ITEM"
        /\ trim(getText(body[j])) = trim(getText(body[k]))

\* what the element body[k] adds to the html of convertBodyToHtml(body), for
\* a body of at most RecentTextLimit list items
Contribution(body, k) ==
    LET at == [IdleFrame EXCEPT !.body = body, !.i = k - 1]
    IN  CASE body[k].type = "PARAGRAPH" -> paragraphCase(at).html
          [] body[k].type = "LIST_ITEM" ->
               IF SeenBefore(body, k) THEN <<>> ELSE processListItem(body, k)
          [] body[k].type = "TABLE" -> convertTableToHtml(body[k])
          [] OTHER -> <<>>

\* C9: an element of an unsupported kind adds nothing to the html and does
\* not end the conversion: the html returned is the output of the supported
\* elements, those after an unsupported one included, in order.
C9_UnsupportedSkipped ==
    frames[1].pc = "done" =>
        frames[1].html
          = Flatten([k \in 1..Len(frames[1].body) |-> Contribution(frames[1].body, k)])

C9_Witness ==
    /\ frames[1].pc = "done"
    /\ Len(frames[1].body) >= 3
    /\ frames[1].body[1].type = "PARAGRAPH"
    /\ frames[1].body[2].type = "TABLE_OF_CONTENTS"
    /\ frames[1].body[3].type = "LIST_ITEM"
    /\ CountIn(frames[1].html, {"<p style=\""}) = 1
    /\ CountIn(frames[1].html, ItemOpenPieces) = 1

\* C10: lastProcessedText is empty at the start of every invocation, and two
\* invocations on the same body return the same html, whatever was converted
\* before them or is being converted between their steps.
C10_GuardPerInvocation ==
    /\ \A c \in {1, 2} :
          (frames[c].pc = "loop" /\ frames[c].i = 0) => frames[c].lastProcessedText = {}
    /\ (frames[1].pc = "done" /\ frames[2].pc = "done"
        /\ frames[1].body = frames[2].body)
       => frames[1].html = frames[2].html

C10_Witness ==
    /\ frames[1].pc = "done"
    /\ frames[2].pc = "done"
    /\ frames[1].body = frames[2].body
    /\ Len(frames[1].body) >= 2
    /\ frames[1].calls = 2
    /\ frames[2].calls = 1
    /\ CountIn(frames[1].html, ItemOpenPieces) = 2
    /\ frames[1].html = frames[2].html

\* ------------------------------ a body longer than the recent-text limit
\* the decimal digits of n
RECURSIVE digits(_)
digits(n) == IF n < 10 THEN <<ToString(n)>> ELSE digits(n \div 10) \o <<ToString(n % 10)>>

NumberedItem(n) == ListItem(digits(n), 0, "BULLET")

\* n list items with pairwise different texts, then up to MaxTail items that
\* repeat the first text, repeat a later text or bring a new one
LongBodies ==
    {[k \in 1..n |-> NumberedItem(k)] \o tail :
        n \in (RecentTextLimit - 1)..(RecentTextLimit + 1),
        tail \in StringsUpTo({NumberedItem(1), NumberedItem(RecentTextLimit - 1),
                              NumberedItem(RecentTextLimit + 2)}, MaxTail)}

NextGuard ==
    \/ Call(1, LongBodies)
    \/ StepListItem(1)
    \/ ReturnHtml(1)
    \/ Discard(1)

SpecGuard == Init /\ [][NextGuard]_vars

\* C11: a top-level list item is rendered exactly when its trimmed text is
\* not in lastProcessedText; a rendered item's text is added and the set is
\* emptied as soon as it holds more than 100 texts; a suppressed item adds
\* nothing to the html and leaves the set as it is.
C11_RecentTextGuard ==
    [][AtElement(1, {"LIST_ITEM"}) =>
          LET f == frames[1]
              g == frames'[1]
              itemText == trim(getText(f.body[f.i + 1]))
          IN  IF itemText \in f.lastProcessedText
              THEN g.html = f.html /\ g.lastProcessedText = f.lastProcessedText
              ELSE /\ Len(g.html) > Len(f.html)
                   /\ SubSeq(g.html, 1, Len(f.html)) = f.html
                   /\ CountIn(g.html, ItemOpenPieces)
                        = CountIn(f.html, ItemOpenPieces) + 1
                   /\ g.lastProcessedText =
                        IF Cardinality(f.lastProcessedText) + 1 > 100 THEN {}
                        ELSE f.lastProcessedText \cup {itemText}]_vars

\* the set has been emptied after the 101st text and the first text, seen
\* again, has been rendered a second time
C11_Witness ==
    /\ frames[1].pc = "loop"
    /\ frames[1].i = RecentTextLimit + 2
    /\ getText(frames[1].body[frames[1].i]) = getText(frames[1].body[1])
    /\ frames[1].lastProcessedText = {getText(frames[1].body[1])}
    /\ CountIn(frames[1].html, ItemOpenPieces) = RecentTextLimit + 2

\* C12: a paragraph with empty text and no inline children is rendered as one
\* no-break space, not as the empty string.
C12_EmptyParagraphPlaceholder ==
    (fn = "convertParagraphToHtml" /\ input.element.children = <<>>) =>
        result = <<"U+00A0">>

C12_Witness ==
    /\ fn = "convertParagraphToHtml"
    /\ input.element.children = <<>>
    /\ Len(result) = 1

\* the pieces of s that are in S, in order
Only(s, S) == SelectSeq(s, LAMBDA x : x \in S)

CellOpenPieces == {"<th style=\"\">", "<td style=\"\">"}

\* the cell tags of a table in document order: th for every cell of its first
\* row, td for the cells of its other rows, a cell's tag before the tags of
\* the tables inside the cell
RECURSIVE ExpectedCellTags(_)
ExpectedCellTags(tableElement) ==
    Flatten([r \in 1..Len(tableElement.rows) |->
      Flatten([j \in 1..Len(tableElement.rows[r]) |->
        <<IF r = 1 THEN "<th style=\"\">" ELSE "<td style=\"\">">>
        \o Flatten([k \in 1..Len(tableElement.rows[r][j]) |->
             IF tableElement.rows[r][j][k].type = "TABLE"
             THEN ExpectedCellTags(tableElement.rows[r][j][k]) ELSE <<>>])])])

\* C13: every cell of the first row of a table is a <th>, every cell of a
\* later row a <td>, in a table inside a cell as well.
C13_FirstRowIsHeader ==
    fn = "convertTableToHtml" =>
        Only(result, CellOpenPieces) = ExpectedCellTags(input.element)

\* a table inside a cell of the second row: its own first row is <th> again
C13_Witness ==
    /\ fn = "convertTableToHtml"
    /\ Len(input.element.rows) >= 2
    /\ input.element.rows[1] = << <<CellParagraph>>, <<>> >>
    /\ input.element.rows[2] = << <<NestedTable>> >>
    /\ Only(result, CellOpenPieces)
         = <<"<th style=\"\">", "<th style=\"\">", "<td style=\"\">",
             "<th style=\"\">", "<td style=\"\">">>

\* C14: no color declaration for a run whose foreground color is pure black,
\* exactly one, with the color, for a run of another color.
C14_BlackOmitted ==
    SegRendered =>
        /\ SegStyle.FOREGROUND_COLOR = "#000000" => CountIn(result, {"color: "}) = 0
        /\ SegStyle.FOREGROUND_COLOR \notin {"", "#000000"} =>
              /\ CountIn(result, {"color: "}) = 1
              /\ result[NthIndex(result, {"color: "}, 1) + 1] = SegStyle.FOREGROUND_COLOR

C14_Witness ==
    /\ SegRendered
    /\ SegStyle.FOREGROUND_COLOR = "#000000"
    /\ SegStyle.BACKGROUND_COLOR = "#ffff00"
    /\ result = <<"<span style=\"", "background-color: ", "#ffff00", "\">", "x", "</span>">>

\* C15: every inline child that is not text is rendered as the placeholder
\* token; none is dropped without output.
C15_EveryInlineKindHasPlaceholder ==
    fn = "convertParagraphToHtml" =>
        CountIn(result, {"[Image]"})
          = Cardinality({k \in DOMAIN input.element.children :
                            input.element.children[k].type # "TEXT"})

ReservedChars == {"&", "<", ">", "\"", "'"}

\* C16: a string without any of the five reserved characters is returned
\* unchanged, and so is the result when it is escaped again.
C16_SafeTextUnchanged ==
    (fn = "escapeHtml" /\ \A k \in DOMAIN input.unsafe : input.unsafe[k] \notin ReservedChars)
    => /\ result = input.unsafe
       /\ escapeHtml(result) = input.unsafe

C16_Witness ==
    /\ fn = "escapeHtml"
    /\ Len(input.unsafe) >= 2
    /\ \A k \in DOMAIN input.unsafe : input.unsafe[k] \notin ReservedChars
    /\ result = input.unsafe

\* ------------------------------------------- executeWithRetry (part_004)
Undefined == "undefined"

\* an error message is a sequence of fragments; includes() looks for a fragment
includes(message, fragment) == \E k \in DOMAIN message : message[k] = fragment

isRetryableAlways(message) == TRUE

\* lines 67-70: the messages after which the call is tried again
isRetryable(message) ==
    \/ includes(message, "rate limit")
    \/ includes(message, "quota")
    \/ includes(message, "timeout")
    \/ includes(message, "service unavailable")

\* what one call of apiCall can do: return a value, throw an Error with a
\* message, or throw a value that has no message property
ApiOutcomes ==
    {[kind |-> "return", value |-> v, hasMessage |-> FALSE, message |-> <<>>] :
        v \in {"response", "null"}}
    \cup {[kind |-> "throw", value |-> Undefined, hasMessage |-> TRUE, message |-> m] :
            m \in {<<"rate limit">>, <<"daily ", "quota", " exceeded">>, <<"timeout">>,
                   <<"service unavailable">>, <<"Rate Limit">>, <<"not found">>}}
    \cup {[kind |-> "throw", value |-> Undefined, hasMessage |-> FALSE, message |-> <<>>]}

\* let lastError: nothing caught yet
NoError == [kind |-> "none", value |-> Undefined, hasMessage |-> FALSE, message |-> <<>>]

InitialDelays == {1000, 250}

IdleRetry ==
    [pc |-> "idle", maxRetries |-> 0, attempt |-> 0, delay |-> 0,
     lastError |-> NoError, returned |-> Undefined]

\* lines 59-81: one iteration of the for loop, apiCall having done outcome
afterAttempt(r, outcome) ==
    IF outcome.kind = "return"
    THEN [r EXCEPT !.pc = "returned", !.returned = outcome.value]
    ELSE IF ~outcome.hasMessage
    \* error.message.includes(...) on undefined raises inside the catch block
    THEN [r EXCEPT !.pc = "thrown", !.lastError = outcome]
    ELSE IF isRetryable(outcome.message)
    THEN IF r.attempt < r.maxRetries
         THEN [r EXCEPT !.lastError = outcome, !.delay = 2 * r.delay,
                        !.attempt = r.attempt + 1]
         ELSE [r EXCEPT !.lastError = outcome, !.attempt = r.attempt + 1]
    ELSE [r EXCEPT !.pc = "afterLoop", !.lastError = outcome]

\* lines 55-57
CallExecuteWithRetry ==
    /\ run.pc = "idle"
    /\ \E maxRetries \in 0..MaxRetries, initialDelay \in InitialDelays :
          run' = [IdleRetry EXCEPT !.pc = "loop", !.maxRetries = maxRetries,
                                   !.attempt = 1, !.delay = initialDelay]
    /\ world' = [calls |-> <<>>, sleeps |-> <<>>]
    /\ UNCHANGED <<documentApp, fn, input, result, frames>>

\* lines 59-81
Attempt ==
    /\ run.pc = "loop"
    /\ run.attempt <= run.maxRetries
    /\ \E outcome \in ApiOutcomes :
          /\ run' = afterAttempt(run, outcome)
          /\ world' = [calls |-> Append(world.calls, outcome),
                       sleeps |-> IF run'.delay # run.delay
                                  THEN Append(world.sleeps, run.delay)
                                  ELSE world.sleeps]
    /\ UNCHANGED <<documentApp, fn, input, result, frames>>

\* lines 84-85: the log line reads lastError.message, then null is returned
ReturnNull ==
    /\ \/ run.pc = "afterLoop"
       \/ run.pc = "loop" /\ run.attempt > run.maxRetries
    /\ run' = IF run.lastError = NoError
              THEN [run EXCEPT !.pc = "thrown"]
              ELSE [run EXCEPT !.pc = "returned", !.returned = "null"]
    /\ UNCHANGED <<documentApp, fn, input, result, frames, world>>

\* the caller goes on
FinishExecuteWithRetry ==
    /\ run.pc \in {"returned", "thrown"}
    /\ run' = IdleRetry
    /\ world' = [calls |-> <<>>, sleeps |-> <<>>]
    /\ UNCHANGED <<documentApp, fn, input, result, frames>>

InitRetry ==
    /\ documentApp \in Platforms
    /\ fn = "none"
    /\ input = NoInput
    /\ result = <<>>
    /\ frames = [c \in {1, 2} |-> IdleFrame]
    /\ run = IdleRetry
    /\ world = [calls |-> <<>>, sleeps |-> <<>>]

NextRetry ==
    \/ CallExecuteWithRetry
    \/ Attempt
    \/ ReturnNull
    \/ FinishExecuteWithRetry

SpecRetry == InitRetry /\ [][NextRetry]_vars

ClassifiedFragments == {"rate limit", "quota", "timeout", "service unavailable"}

Classified(outcome) ==
    /\ outcome.kind = "throw"
    /\ outcome.hasMessage
    /\ \E k \in DOMAIN outcome.message : outcome.message[k] \in ClassifiedFragments

upperCaseOf(c) ==
    CASE c = "o" -> "O" [] c = "f" -> "F" [] c = "b" -> "B" [] c = "a" -> "A"
      [] c = "r" -> "R" [] c = "d" -> "D" [] c = "y" -> "Y" [] c = "e" -> "E"
      [] c = "s" -> "S" [] OTHER -> c

toUpperCase(s) == [k \in DOMAIN s |-> upperCaseOf(s[k])]

OFFBOARD == <<"O", "F", "F", "B", "O", "A", "R", "D">>

showConfirmationDialogAnyButton(response, confirmationText) ==
    toUpperCase(trim(response.text)) = toUpperCase(confirmationText)

\* part_004:215-223: what the dialog function returns for the user's response
showConfirmationDialog(response, confirmationText) ==
    /\ response.button = "OK"
    /\ toUpperCase(trim(response.text)) = toUpperCase(confirmationText)

\* what the user can do with the prompt
ResponseTexts ==
    {OFFBOARD,
     <<"o", "f", "f", "b", "o", "a", "r", "d">>,
     <<" ", "O", "f", "f", "b", "o", "a", "r", "d", " ">>,
     <<"O", "F", "F", " ", "B", "O", "A", "R", "D">>,
     <<"O", "F", "F">>,
     <<"Y", "E", "S">>,
     <<>>}

Responses == [button : {"OK", "CANCEL", "CLOSE"}, text : ResponseTexts]

NoResponse == [button |-> "none", text |-> <<>>]

IdleOffboard == [pc |-> "idle", hasEndDate |-> FALSE]

NoOffboardCalls == [dialog |-> NoResponse, changes |-> <<>>, alerts |-> <<>>]

\* the state-changing service calls of a helper, in order
changesOf(step) ==
    CASE step = "markEmployeeInactive" -> <<"setValue(active, No)", "setValue(endDate)">>
      [] step = "removeEmployeeFromGroups" -> <<"removeMembershipFromGroups">>
      [] step = "archiveEmployeeFolders" -> <<"removeAccess", "moveToArchive">>
      [] step = "createOffboardingDocumentation" -> <<"copyAndPersonalizeDocument">>
      [] step = "createOffboardingEmailNotification" -> <<"createEmailFromTemplate">>

\* a helper that returns false ends the workflow in steps 3 to 5 only
endsWorkflow(step) ==
    step \in {"markEmployeeInactive", "removeEmployeeFromGroups", "archiveEmployeeFolders"}

nextStep(step) ==
    CASE step = "markEmployeeInactive" -> "removeEmployeeFromGroups"
      [] step = "removeEmployeeFromGroups" -> "archiveEmployeeFolders"
      [] step = "archiveEmployeeFolders" -> "createOffboardingDocumentation"
      [] step = "createOffboardingDocumentation" -> "createOffboardingEmailNotification"
      [] step = "createOffboardingEmailNotification" -> "success"

\* line 355
CallOffboardEmployeeWorkflow ==
    /\ run.pc = "idle"
    /\ \E hasEndDate \in BOOLEAN :
          run' = [pc |-> "extract", hasEndDate |-> hasEndDate]
    /\ world' = NoOffboardCalls
    /\ UNCHANGED <<documentApp, fn, input, result, frames>>

\* lines 359-361: the row is read and validated; null ends the workflow after
\* an alert, an exception goes to the catch block
ExtractEmployeeData ==
    /\ run.pc = "extract"
    /\ \E outcome \in {"employeeData", "null", "throw"} :
          /\ run' = [run EXCEPT !.pc = CASE outcome = "employeeData" -> "confirm"
                                          [] outcome = "null" -> "done"
                                          [] outcome = "throw" -> "catch"]
          /\ world' = [world EXCEPT !.alerts =
                          IF outcome = "null" THEN Append(@, "Missing information") ELSE @]
    /\ UNCHANGED <<documentApp, fn, input, result, frames>>

\* lines 364-376
ConfirmOffboarding ==
    /\ run.pc = "confirm"
    /\ \E response \in Responses :
          IF showConfirmationDialog(response, OFFBOARD)
          THEN /\ run' = [run EXCEPT !.pc = "markEmployeeInactive", !.hasEndDate = TRUE]
               /\ world' = [world EXCEPT !.dialog = response]
          ELSE /\ run' = [run EXCEPT !.pc = "done"]
               /\ world' = [world EXCEPT !.dialog = response,
                                         !.alerts = Append(@, "Offboarding cancelled.")]
    /\ UNCHANGED <<documentApp, fn, input, result, frames>>

\* lines 384-402: the progress sidebar, then one helper; the helper makes its
\* service calls in order until one throws, and returns false in that case
HelperStep(step) ==
    /\ run.pc = step
    /\ \/ /\ run' = [run EXCEPT !.pc = "catch"]
          /\ world' = world
       \/ \E done \in 0..Len(changesOf(step)) :
            /\ world' = [world EXCEPT
                           !.changes = @ \o SubSeq(changesOf(step), 1, done),
                           !.alerts = IF done < Len(changesOf(step)) /\ endsWorkflow(step)
                                      THEN Append(@, "Failed") ELSE @]
            /\ run' = [run EXCEPT !.pc =
                         IF done < Len(changesOf(step)) /\ endsWorkflow(step)
                         THEN "done" ELSE nextStep(step)]
    /\ UNCHANGED <<documentApp, fn, input, result, frames>>

\* lines 404-407
CompleteOffboarding ==
    /\ run.pc = "success"
    /\ \/ /\ run' = [run EXCEPT !.pc = "done"]
          /\ world' = [world EXCEPT !.alerts = Append(@, "Offboarding process completed")]
       \/ /\ run' = [run EXCEPT !.pc = "catch"]
          /\ world' = world
    /\ UNCHANGED <<documentApp, fn, input, result, frames>>

\* lines 409-412
CatchOffboardingError ==
    /\ run.pc = "catch"
    /\ run' = [run EXCEPT !.pc = "done"]
    /\ world' = [world EXCEPT !.alerts = Append(@, "Offboarding process failed")]
    /\ UNCHANGED <<documentApp, fn, input, result, frames>>

FinishOffboarding ==
    /\ run.pc = "done"
    /\ run' = IdleOffboard
    /\ world' = NoOffboardCalls
    /\ UNCHANGED <<documentApp, fn, input, result, frames>>

InitOffboard ==
    /\ documentApp \in Platforms
    /\ fn = "none"
    /\ input = NoInput
    /\ result = <<>>
    /\ frames = [c \in {1, 2} |-> IdleFrame]
    /\ run = IdleOffboard
    /\ world = NoOffboardCalls

NextOffboard ==
    \/ CallOffboardEmployeeWorkflow
    \/ ExtractEmployeeData
    \/ ConfirmOffboarding
    \/ HelperStep("markEmployeeInactive")
    \/ HelperStep("removeEmployeeFromGroups")
    \/ HelperStep("archiveEmployeeFolders")
    \/ HelperStep("createOffboardingDocumentation")
    \/ HelperStep("createOffboardingEmailNotification")
    \/ CompleteOffboarding
    \/ CatchOffboardingError
    \/ FinishOffboarding

SpecOffboard == InitOffboard /\ [][NextOffboard]_vars

\* the same letter in either case
SameLetter(a, b) == a = b \/ upperCaseOf(a) = b \/ a = upperCaseOf(b)

\* s without its leading and trailing spaces is t, letter case set aside
ConfirmsWith(s, t) ==
    \E i \in 0..Len(s) :
       /\ Len(s) >= i + Len(t)
       /\ \A k \in 1..i : s[k] = " "
       /\ \A k \in (i + Len(t) + 1)..Len(s) : s[k] = " "
       /\ \A k \in 1..Len(t) : SameLetter(s[i + k], t[k])

\* C18: a state-changing step (sheet, groups, folders, documents) has been
\* performed, or is about to be, only if the dialog was answered with OK and
\* a text that is OFFBOARD after trimming, letter case set aside.
C18_NoChangeWithoutConfirmation ==
    (world.changes # <<>> \/ run.pc \in {"markEmployeeInactive", "removeEmployeeFromGroups",
                                        "archiveEmployeeFolders",
                                        "createOffboardingDocumentation",
                                        "createOffboardingEmailNotification", "success"})
    => (world.dialog.button = "OK" /\ ConfirmsWith(world.dialog.text, OFFBOARD))

\* confirmed with " Offboard ": the sheet has been changed
C18_Witness ==
    /\ world.dialog.button = "OK"
    /\ world.dialog.text = <<" ", "O", "f", "f", "b", "o", "a", "r", "d", " ">>
    /\ Len(world.changes) >= 2
    /\ world.changes[1] = "setValue(active, No)"

\* ------------------------------------- createEmailFromTemplate (part_001)
\* placeholderValues: each entry is replaced as text or as a link
PlaceholderValues == StringsUpTo({"text", "link"}, MaxPlaceholders)

\* what convertBodyToHtml can hand back for the final body
HtmlBodies == {<<>>, <<"<p style=\"\">", "a", "</p>">>}

IdleEmail ==
    [pc |-> "idle", copyDocId |-> "null", isDraft |-> TRUE, placeholders |-> <<>>,
     htmlBody |-> <<>>, returned |-> "none"]

NoEmailCalls ==
    [copy |-> "none", trashRequests |-> 0, drafts |-> 0, sent |-> 0, alerts |-> 0]

cleanupUnguarded(copyDocId, outcome) ==
    IF copyDocId = "null"
    THEN [requests |-> 0, trashed |-> FALSE, raised |-> FALSE]
    ELSE [requests |-> 1, trashed |-> outcome = "ok", raised |-> outcome = "throw"]

\* lines 441-448: the cleanup of the catch block; outcome is what setTrashed does
cleanup(copyDocId, outcome) ==
    IF copyDocId = "null"
    THEN [requests |-> 0, trashed |-> FALSE, raised |-> FALSE]
    ELSE [requests |-> 1, trashed |-> outcome = "ok", raised |-> FALSE]

\* line 384
CallCreateEmailFromTemplate ==
    /\ run.pc = "idle"
    /\ \E isDraft \in BOOLEAN, placeholderValues \in PlaceholderValues :
          run' = [IdleEmail EXCEPT !.pc = "copy", !.isDraft = isDraft,
                                   !.placeholders = placeholderValues]
    /\ world' = NoEmailCalls
    /\ UNCHANGED <<documentApp, fn, input, result, frames>>

\* lines 388-394: the template is copied and the copy opened
MakeCopy ==
    /\ run.pc = "copy"
    /\ \E outcome \in {"ok", "copy throws", "open throws"} :
          /\ run' = [run EXCEPT !.pc = IF outcome = "ok" THEN "replace" ELSE "catch",
                                !.copyDocId = IF outcome = "copy throws" THEN "null"
                                              ELSE "copy"]
          /\ world' = [world EXCEPT !.copy = IF outcome = "copy throws" THEN "none"
                                             ELSE "live"]
    /\ UNCHANGED <<documentApp, fn, input, result, frames>>

\* lines 396-407: one placeholder is replaced
ReplacePlaceholder ==
    /\ run.pc = "replace"
    /\ run.placeholders # <<>>
    /\ \/ run' = [run EXCEPT !.placeholders = Tail(@)]
       \/ run' = [run EXCEPT !.pc = "catch"]
    /\ UNCHANGED <<documentApp, fn, input, result, frames, world>>

\* lines 408-417: the copy is saved, opened again and converted
ConvertCopy ==
    /\ run.pc = "replace"
    /\ run.placeholders = <<>>
    /\ \/ \E htmlBody \in HtmlBodies :
            run' = [run EXCEPT !.pc = "deliver", !.htmlBody = htmlBody]
       \/ run' = [run EXCEPT !.pc = "catch"]
    /\ UNCHANGED <<documentApp, fn, input, result, frames, world>>

\* lines 419-427
Deliver ==
    /\ run.pc = "deliver"
    /\ \/ /\ run' = [run EXCEPT !.pc = "trash"]
          /\ world' = IF run.isDraft THEN [world EXCEPT !.drafts = @ + 1]
                      ELSE [world EXCEPT !.sent = @ + 1]
       \/ /\ run' = [run EXCEPT !.pc = "catch"]
          /\ world' = world
    /\ UNCHANGED <<documentApp, fn, input, result, frames>>

\* lines 429-432
TrashCopy ==
    /\ run.pc = "trash"
    /\ \/ /\ run' = [run EXCEPT !.pc = "returned", !.copyDocId = "null",
                                !.returned = "true"]
          /\ world' = [world EXCEPT !.trashRequests = @ + 1, !.copy = "trashed"]
       \/ /\ run' = [run EXCEPT !.pc = "catch"]
          /\ world' = [world EXCEPT !.trashRequests = @ + 1]
    /\ UNCHANGED <<documentApp, fn, input, result, frames>>

\* lines 434-448
CatchEmailError ==
    /\ run.pc = "catch"
    /\ \E outcome \in {"ok", "throw"} :
          LET c == cleanup(run.copyDocId, outcome) IN
          /\ run' = IF c.raised THEN [run EXCEPT !.pc = "thrown"]
                    ELSE [run EXCEPT !.pc = "returned", !.returned = "false"]
          /\ world' = [world EXCEPT !.alerts = @ + 1,
                                    !.trashRequests = @ + c.requests,
                                    !.copy = IF c.trashed THEN "trashed" ELSE @]
    /\ UNCHANGED <<documentApp, fn, input, result, frames>>

FinishCreateEmail ==
    /\ run.pc \in {"returned", "thrown"}
    /\ run' = IdleEmail
    /\ world' = NoEmailCalls
    /\ UNCHANGED <<documentApp, fn, input, result, frames>>

InitEmail ==
    /\ documentApp \in Platforms
    /\ fn = "none"
    /\ input = NoInput
    /\ result = <<>>
    /\ frames = [c \in {1, 2} |-> IdleFrame]
    /\ run = IdleEmail
    /\ world = NoEmailCalls

NextEmail ==
    \/ CallCreateEmailFromTemplate
    \/ MakeCopy
    \/ ReplacePlaceholder
    \/ ConvertCopy
    \/ Deliver
    \/ TrashCopy
    \/ CatchEmailError
    \/ FinishCreateEmail

SpecEmail == InitEmail /\ [][NextEmail]_vars

\* C19: the function returns true exactly when the draft was created or the
\* email sent; when it returns false there is no draft and no email.
C19_FalseMeansNothingDelivered ==
    run.pc = "returned" =>
        /\ run.returned = "true" => world.drafts + world.sent = 1
        /\ run.returned = "false" => world.drafts = 0 /\ world.sent = 0

BetweenItems(html, k) ==
    SubSeq(html, NthIndex(html, {"</li>"}, k) + 1, NthIndex(html, ItemOpenPieces, k + 1) - 1)

\* C21: after the item at level n, when the next sibling is a list item at
\* level m: n - m closing tags if m < n (one for m = n - 1, one more for each
\* level skipped), none if m >= n and the container tag is the same.
C21_ClosingTagsPerLevel ==
    fn = "cellContent" =>
        \A k \in 1..(Len(input.children) - 1) :
            LET n == input.children[k].nesting
                m == input.children[k + 1].nesting
                closed == CountIn(BetweenItems(result, k), ListClosePieces)
            IN  /\ m < n => closed = n - m
                /\ (m >= n /\ listTagOf(input.children[k].glyph)
                                = listTagOf(input.children[k + 1].glyph)) => closed = 0

\* from level 2 straight to level 0: two closing tags
C21_Witness ==
    /\ fn = "cellContent"
    /\ Len(input.children) = 2
    /\ input.children[1].nesting = 2
    /\ input.children[2].nesting = 0
    /\ CountIn(BetweenItems(result, 1), ListClosePieces) = 2

EntityOf(c) ==
    CASE c = "&" -> <<"&", "a", "m", "p", ";">>
      [] c = "<" -> <<"&", "l", "t", ";">>
      [] c = ">" -> <<"&", "g", "t", ";">>
      [] c = "\"" -> <<"&", "q", "u", "o", "t", ";">>
      [] c = "'" -> <<"&", "#", "0", "3", "9", ";">>
      [] OTHER -> <<c>>

\* C22: each reserved character is replaced by its entity and every other
\* character is kept, so no literal quote is left and no ampersand of an
\* entity is escaped again.
C22_EachReservedCharIsEntity ==
    fn = "escapeHtml" =>
        result = Flatten([k \in 1..Len(input.unsafe) |-> EntityOf(input.unsafe[k])])

HeadingLevels == {"HEADING1", "HEADING2", "HEADING3", "HEADING4", "HEADING5", "HEADING6"}

Declarations(paragraph) ==
    << <<"margin: 0.5em 0">>, <<"padding: 0">> >>
    \o (IF paragraph.alignment \in {"CENTER", "RIGHT", "JUSTIFY"}
        THEN << <<"text-align: " \o (CASE paragraph.alignment = "CENTER" -> "center"
                                       [] paragraph.alignment = "RIGHT" -> "right"
                                       [] OTHER -> "justify")>> >>
        ELSE <<>>)
    \o (IF paragraph.heading \in HeadingLevels THEN << <<"font-weight: bold">> >> ELSE <<>>)
    \o (IF paragraph.lineSpacing # 0
        THEN << <<"line-height: ", ToString(paragraph.lineSpacing)>> >> ELSE <<>>)
    \o (IF paragraph.indentStart # 0
        THEN << <<"padding-left: ", ToString(paragraph.indentStart), "pt">> >> ELSE <<>>)
    \o (IF paragraph.indentEnd # 0
        THEN << <<"padding-right: ", ToString(paragraph.indentEnd), "pt">> >> ELSE <<>>)
    \o (IF paragraph.indentFirstLine # 0
        THEN << <<"text-indent: ", ToString(paragraph.indentFirstLine), "pt">> >> ELSE <<>>)

\* C23: the style is the applicable declarations joined by "; " in the fixed
\* order, with font-weight: bold exactly for a paragraph that has a heading
\* level.
C23_ParagraphStyleDeclarations ==
    fn = "getParagraphStyle" => result = join(Declarations(input.element), "; ")

\* C26: in every prefix of the rendering of a run of sibling list items there
\* are at most as many closing list tags as opening list tags.
C26_NeverClosesUnopened ==
    fn = "cellContent" =>
        \A p \in 0..Len(result) :
            CountIn(SubSeq(result, 1, p), ListClosePieces)
              <= CountIn(SubSeq(result, 1, p), ListOpenPieces)

BulletStyles == {"disc", "circle", "square"}
OrdinalStyles == {"decimal", "lower-latin", "upper-latin", "lower-roman", "upper-roman"}

\* C27: the container is <ul> exactly when the list-style-type is a bullet
\* keyword and <ol> exactly when it is an ordinal keyword, for every glyph.
C27_ContainerAgreesWithGlyphStyle ==
    fn = "processListItem" =>
        LET styleAt == NthIndex(result, {"px; list-style-type: "}, 1) + 1
        IN  /\ result[1] = "<ul" <=> result[styleAt] \in BulletStyles
            /\ result[1] = "<ol" <=> result[styleAt] \in OrdinalStyles

\* C28: one '[Image]' for every inline image child, in a paragraph that holds
\* only images as well.
C28_EveryImageHasPlaceholder ==
    fn = "convertParagraphToHtml" =>
        CountIn(result, {"[Image]"})
          = Cardinality({k \in DOMAIN input.element.children :
                            input.element.children[k].type = "INLINE_IMAGE"})

\* C29: executeWithRetry does not raise, whatever apiCall does and whatever
\* maxRetries is.
C29_NeverThrows == run.pc # "thrown"

\* C30: no character of the text or of the link URL reaches the output as a
\* literal double quote, '<' or '>'; the only quote pieces are those the
\* converter puts around a font family name.
C30_DocumentStringsEscaped ==
    SegRendered =>
        \A i \in DOMAIN result :
            /\ result[i] \notin {"<", ">"}
            /\ result[i] = "\"" =>
                  /\ i > 2
                  /\ result[i - 2] = "font-family: \""
                  /\ result[i - 1] = SegStyle.FONT_FAMILY

\* --------------------------- processAttestationEmails (Constants.example.js)
COL_FIRST_NAME == "First Name"
COL_WORK_EMAIL == "Work Email"
COL_ACTIVE == "Active"

\* String.prototype.toLowerCase() on the letters of the Active cells
lowerCaseOf(c) ==
    CASE c = "Y" -> "y" [] c = "E" -> "e" [] c = "S" -> "s" [] c = "N" -> "n"
      [] c = "O" -> "o" [] OTHER -> c

toLowerCase(s) == [k \in DOMAIN s |-> lowerCaseOf(s[k])]

\* part_004:181-186: /^[^\s@]+@[^\s@]+\.[^\s@]+$/ on the trimmed address
isValidEmail(email) ==
    /\ email # <<>>
    /\ LET t == trim(email)
       IN  \E at \in 2..Len(t) :
             /\ t[at] = "@"
             /\ \A k \in (1..Len(t)) \ {at} : t[k] \notin {" ", "@"}
             /\ \E dot \in (at + 2)..(Len(t) - 1) : t[dot] = "."

\* SheetHelpers.js:29-35: header name -> 0-based column index, empty headers
\* left out, the last column of a repeated name kept
headerMapOf(headers) ==
    [h \in {headers[j] : j \in DOMAIN headers} \ {""} |->
        (CHOOSE j \in DOMAIN headers :
            headers[j] = h /\ \A k \in DOMAIN headers : headers[k] = h => k <= j) - 1]

\* part_004:96-112: the fields for which !data[field] holds (absent, or 0)
validateRequiredFields(data, requiredFields) ==
    SelectSeq(requiredFields, LAMBDA field : field \notin DOMAIN data \/ data[field] = 0)

rowActionAnyEmail(firstName, email, isActive) ==
    IF isActive = <<"y", "e", "s">> /\ firstName # <<>> /\ email # <<>>
    THEN "send"
    ELSE IF isActive = <<"y", "e", "s">> THEN "failed"
    ELSE "skip"

\* lines 268-291: what the loop does with a row
rowAction(firstName, email, isActive) ==
    IF isActive = <<"y", "e", "s">> /\ firstName # <<>> /\ email # <<>> /\ isValidEmail(email)
    THEN "send"
    ELSE IF isActive = <<"y", "e", "s">> THEN "failed"
    ELSE "skip"

\* header rows: three or four different column names in any order
ColumnNames == {COL_FIRST_NAME, COL_WORK_EMAIL, COL_ACTIVE, "Notes"}

HeaderRows ==
    {h \in [1..3 -> ColumnNames] \cup [1..4 -> ColumnNames] :
        \A j, k \in DOMAIN h : h[j] = h[k] => j = k}

\* employees: active or not, with or without a name and a usable address
Employees ==
    {[firstName |-> <<"A">>, email |-> <<"a", "@", "b", ".", "c">>, active |-> <<"Y", "e", "s">>],
     [firstName |-> <<"A">>, email |-> <<"a", "@", "b", ".", "c">>,
      active |-> <<" ", "Y", "E", "S", " ">>],
     [firstName |-> <<>>, email |-> <<"a", "@", "b", ".", "c">>, active |-> <<"y", "e", "s">>],
     [firstName |-> <<"A">>, email |-> <<"a", "@", "b">>, active |-> <<"y", "e", "s">>],
     [firstName |-> <<"A">>, email |-> <<>>, active |-> <<"y", "e", "s">>],
     [firstName |-> <<"A">>, email |-> <<"a", "@", "b", ".", "c">>, active |-> <<"N", "o">>],
     [firstName |-> <<"A">>, email |-> <<"a", "@", "b">>, active |-> <<>>]}

\* the cells of an employee's row under the given headers
RowOf(headers, employee) ==
    [j \in DOMAIN headers |->
        CASE headers[j] = COL_FIRST_NAME -> employee.firstName
          [] headers[j] = COL_WORK_EMAIL -> employee.email
          [] headers[j] = COL_ACTIVE -> employee.active
          [] OTHER -> <<>>]

\* getDataRange().getValues(): the header row and the employee rows; an empty
\* sheet has no row at all
Sheets ==
    {<<>>}
    \cup {<<headers>> \o [i \in DOMAIN employees |-> RowOf(headers, employees[i])] :
            headers \in HeaderRows, employees \in StringsUpTo(Employees, MaxDataRows)}

IdleAttestation ==
    [pc |-> "idle", data |-> <<>>, missingFields |-> <<>>, i |-> 0,
     emailsSent |-> 0, emailsFailed |-> 0, returned |-> "none"]

NoAttestationCalls == [calls |-> <<>>, examined |-> <<>>, alerts |-> 0]

\* lines 233-258: the sheet is read and the headers are validated
CallProcessAttestationEmails ==
    /\ run.pc = "idle"
    /\ \E data \in Sheets :
          IF data = <<>>
          THEN /\ run' = [IdleAttestation EXCEPT !.pc = "returned", !.returned = "null"]
               /\ world' = [NoAttestationCalls EXCEPT !.alerts = 1]
          ELSE LET missingFields ==
                       validateRequiredFields(headerMapOf(data[1]),
                                              <<COL_FIRST_NAME, COL_WORK_EMAIL, COL_ACTIVE>>)
               IN  IF missingFields # <<>>
                   THEN /\ run' = [IdleAttestation EXCEPT
                                      !.pc = "returned", !.data = data,
                                      !.missingFields = missingFields, !.returned = "null"]
                        /\ world' = [NoAttestationCalls EXCEPT !.alerts = 1]
                   ELSE /\ run' = [IdleAttestation EXCEPT
                                      !.pc = "loop", !.data = data, !.i = 1]
                        /\ world' = NoAttestationCalls
    /\ UNCHANGED <<documentApp, fn, input, result, frames>>

\* lines 260-292: one iteration of the loop; success is what
\* createEmailFromTemplate returns
ProcessRow ==
    /\ run.pc = "loop"
    /\ run.i < Len(run.data)
    /\ LET headerMap == headerMapOf(run.data[1])
           row == run.data[run.i + 1]
           firstName == row[headerMap[COL_FIRST_NAME] + 1]
           email == row[headerMap[COL_WORK_EMAIL] + 1]
           isActive == toLowerCase(trim(row[headerMap[COL_ACTIVE] + 1]))
           action == rowAction(firstName, email, isActive)
       IN  \E success \in BOOLEAN :
             /\ run' = [run EXCEPT
                          !.i = @ + 1,
                          !.emailsSent = IF action = "send" /\ success THEN @ + 1 ELSE @,
                          !.emailsFailed = IF action = "failed" \/ (action = "send" /\ ~success)
                                           THEN @ + 1 ELSE @]
             /\ world' = [world EXCEPT
                            !.examined = Append(@, run.i),
                            !.calls = IF action = "send" THEN Append(@, run.i) ELSE @]
    /\ UNCHANGED <<documentApp, fn, input, result, frames>>

\* lines 294-299
ReturnCounts ==
    /\ run.pc = "loop"
    /\ run.i >= Len(run.data)
    /\ run' = [run EXCEPT !.pc = "returned", !.returned = "counts"]
    /\ UNCHANGED <<documentApp, fn, input, result, frames, world>>

FinishAttestation ==
    /\ run.pc = "returned"
    /\ run' = IdleAttestation
    /\ world' = NoAttestationCalls
    /\ UNCHANGED <<documentApp, fn, input, result, frames>>

InitAttestation ==
    /\ documentApp \in Platforms
    /\ fn = "none"
    /\ input = NoInput
    /\ result = <<>>
    /\ frames = [c \in {1, 2} |-> IdleFrame]
    /\ run = IdleAttestation
    /\ world = NoAttestationCalls

NextAttestation ==
    \/ CallProcessAttestationEmails
    \/ ProcessRow
    \/ ReturnCounts
    \/ FinishAttestation

SpecAttestation == InitAttestation /\ [][NextAttestation]_vars

\* the cell of data row i (1 = first employee) under the column called name
CellUnder(data, i, name) ==
    data[i + 1][CHOOSE j \in DOMAIN data[1] : data[1][j] = name]

IsActiveRow(data, i) == ConfirmsWith(CellUnder(data, i, COL_ACTIVE), <<"y", "e", "s">>)

\* local@domain.tld without spaces or a second @
WellFormedEmail(e) ==
    /\ Cardinality({k \in DOMAIN e : e[k] = "@"}) = 1
    /\ \A k \in DOMAIN e : e[k] # " "
    /\ LET at == CHOOSE k \in DOMAIN e : e[k] = "@"
       IN  at > 1 /\ \E dot \in DOMAIN e : e[dot] = "." /\ dot > at + 1 /\ dot < Len(e)

\* C24: when counts are returned, sent + failed is the number of rows whose
\* Active cell is 'yes' after trimming, letter case set aside; the rows were
\* examined once each in sheet order; createEmailFromTemplate was called only
\* for active rows with a first name and a valid work email.
C24_CountsCoverActiveRows ==
    (run.pc = "returned" /\ run.returned = "counts") =>
        LET n == Len(run.data) - 1 IN
        /\ run.emailsSent + run.emailsFailed
             = Cardinality({i \in 1..n : IsActiveRow(run.data, i)})
        /\ world.examined = [i \in 1..n |-> i]
        /\ \A c \in DOMAIN world.calls :
              LET i == world.calls[c] IN
              /\ IsActiveRow(run.data, i)
              /\ CellUnder(run.data, i, COL_FIRST_NAME) # <<>>
              /\ WellFormedEmail(CellUnder(run.data, i, COL_WORK_EMAIL))

\* two rows: ' YES ' with name and address is sent, 'yes' with a bad address
\* is counted as failed without a call
C24_Witness ==
    /\ run.pc = "returned"
    /\ run.returned = "counts"
    /\ Len(run.data) = 3
    /\ CellUnder(run.data, 1, COL_ACTIVE) = <<" ", "Y", "E", "S", " ">>
    /\ CellUnder(run.data, 2, COL_WORK_EMAIL) = <<"a", "@", "b">>
    /\ IsActiveRow(run.data, 2)
    /\ world.calls = <<1>>
    /\ run.emailsSent = 1
    /\ run.emailsFailed = 1

\* C25: the header validation fails, and null is returned for it, exactly
\* when one of First Name, Work Email and Active is not in the header row,
\* wherever the three columns are.
C25_HeadersFoundAtAnyPosition ==
    (run.pc # "idle" /\ run.data # <<>>) =>
        (run.missingFields # <<>>
           <=> \E name \in {COL_FIRST_NAME, COL_WORK_EMAIL, COL_ACTIVE} :
                  \A j \in DOMAIN run.data[1] : run.data[1][j] # name)

====
